---- MODULE Spec2Model ----
(***************************************************************************)
(* A model of the ruleset-driven cellular automaton engine:                *)
(*   src/src/rule_parsing.rs  the condition parser (nom combinators)       *)
(*   src/src/ruleset.rs       Ruleset, RulesetState, Neighbourhood         *)
(*   src/src/main.rs          World and the driver's ruleset reload        *)
(*                                                                         *)
(* Strings are sequences of one-character strings, so that the parser's    *)
(* work on characters is modelled and not assumed.                         *)
(***************************************************************************)
EXTENDS Integers, Sequences, FiniteSets, TLC

VARIABLES
    world,      \* main's `world`: [width, height, cells, ruleset]
    states,     \* main's `states: Vec<String>`, the names offered for spawning
    config,     \* main's `config`: [spawn: [spawn_state]], the spawn selector
    panicked,   \* TRUE once the process has aborted (unwrap / index panic)
    last        \* history: the last operation, its arguments and its result

vars == <<world, states, config, panicked, last>>

(***************************************************************************)
(* Characters and strings                                                  *)
(***************************************************************************)
Digits == {"0", "1", "2", "3", "4", "5", "6", "7", "8", "9"}
Letters == {"a", "b", "c", "d", "e", "f", "s", "t", "x", "A", "B", "C", "D", "E", "F"}
Whitespace == {" ", "\t", "\n", "\r"}
\* char::is_alphanumeric() || c == '_'
NameChars == Letters \cup Digits \cup {"_"}

\* `LET x == v IN F(x)`, with v evaluated once however often F uses x
With(v, F(_)) == CHOOSE r \in {F(x) : x \in {v}} : TRUE

Take(s, n) == SubSeq(s, 1, n)
Drop(s, n) == SubSeq(s, n + 1, Len(s))

\* the least element of a non-empty set of integers
Min(S) == CHOOSE m \in S : \A n \in S : m <= n

\* the length of the longest prefix of s whose characters are all in S
PrefixLen(s, S) ==
    With({i \in DOMAIN s : s[i] \notin S}, LAMBDA others :
        IF others = {} THEN Len(s) ELSE Min(others) - 1)

DigitVal(c) ==
    CASE c = "0" -> 0 [] c = "1" -> 1 [] c = "2" -> 2 [] c = "3" -> 3
      [] c = "4" -> 4 [] c = "5" -> 5 [] c = "6" -> 6 [] c = "7" -> 7
      [] c = "8" -> 8 [] c = "9" -> 9

DigitChar(n) == CHOOSE c \in Digits : DigitVal(c) = n

(***************************************************************************)
(* usize values.  A usize is kept as its canonical decimal digits, so that *)
(* the whole 64-bit range is represented exactly.                          *)
(***************************************************************************)
\* usize::MAX, 2^64 - 1, on a 64-bit target
UsizeMaxDigits ==
    <<"1", "8", "4", "4", "6", "7", "4", "4", "0", "7",
      "3", "7", "0", "9", "5", "5", "1", "6", "1", "5">>

\* decimal digits without leading zeros ("007" and "7" are the same number)
Canon(ds) ==
    With(PrefixLen(ds, {"0"}), LAMBDA zeros :
        IF zeros = Len(ds) THEN <<"0">> ELSE Drop(ds, zeros))

\* a < b for digit sequences of the same length
LexLess(a, b) ==
    With({i \in DOMAIN a : a[i] # b[i]}, LAMBDA differ :
        differ # {} /\ DigitVal(a[Min(differ)]) < DigitVal(b[Min(differ)]))

\* a < b for canonical digit sequences
NatLess(a, b) == Len(a) < Len(b) \/ (Len(a) = Len(b) /\ LexLess(a, b))

\* A usize that is used in arithmetic (a neighbourhood's range) is kept as
\* [high, off]: the value `off` itself, or, with high, the value 2^64 - off
Usize(n) == [high |-> FALSE, off |-> n]
UsizeTop(k) == [high |-> TRUE, off |-> k]

\* the cast `u as isize` keeps the 64 bits, so a value from 2^63 on is read
\* as that value less 2^64
as_isize(u) == IF u.high THEN -u.off ELSE u.off

RECURSIVE ToDigits(_)
\* the canonical digits of a (small) natural number, e.g. a census count
ToDigits(n) ==
    IF n < 10 THEN <<DigitChar(n)>>
    ELSE Append(ToDigits(n \div 10), DigitChar(n % 10))

(***************************************************************************)
(* nom results: Ok((rest, value)) or Err(Error)                            *)
(***************************************************************************)
Ok(rest, val) == [ok |-> TRUE, rest |-> rest, val |-> val]
Err == [ok |-> FALSE]

\* nom::bytes::complete::tag
tag(t, input) ==
    IF Len(input) >= Len(t) /\ Take(input, Len(t)) = t
    THEN Ok(Drop(input, Len(t)), t) ELSE Err

\* nom::character::complete::multispace0: never fails
multispace0(input) == Drop(input, PrefixLen(input, Whitespace))

\* str::parse::<usize>() on a non-empty digit string: Err on overflow
parse_usize(ds) ==
    With(Canon(ds), LAMBDA c :
        IF NatLess(UsizeMaxDigits, c) THEN Err ELSE Ok(<<>>, c))

\* Op
OpEq == "Eq"
OpGt == "Gt"
OpGe == "Ge"
OpLt == "Lt"
OpLe == "Le"
OpNe == "Ne"
Ops == {OpEq, OpGt, OpGe, OpLt, OpLe, OpNe}

\* CompareTo
CompareToState(name) == [kind |-> "State", name |-> name]
CompareToValue(v) == [kind |-> "Value", v |-> v]

\* Condition
Condition(state, op, compare_to) ==
    [state |-> state, op |-> op, compare_to |-> compare_to]

parse_state_name(input) ==
    IF input # <<>> /\ Head(input) = "$"
    THEN With(PrefixLen(Tail(input), NameChars), LAMBDA n :
            IF n >= 1 THEN Ok(Drop(Tail(input), n), Take(Tail(input), n))
            ELSE Err)
    ELSE Err

\* parse_operator with the one-character operators tried first
parse_operator_short_first(input) ==
    IF tag(<<">">>, input).ok THEN Ok(Drop(input, 1), OpGt)
    ELSE IF tag(<<"<">>, input).ok THEN Ok(Drop(input, 1), OpLt)
    ELSE IF tag(<<"=", "=">>, input).ok THEN Ok(Drop(input, 2), OpEq)
    ELSE IF tag(<<">", "=">>, input).ok THEN Ok(Drop(input, 2), OpGe)
    ELSE IF tag(<<"<", "=">>, input).ok THEN Ok(Drop(input, 2), OpLe)
    ELSE IF tag(<<"!", "=">>, input).ok THEN Ok(Drop(input, 2), OpNe)
    ELSE Err

parse_operator(input) ==
    IF tag(<<"=", "=">>, input).ok THEN Ok(Drop(input, 2), OpEq)
    ELSE IF tag(<<">", "=">>, input).ok THEN Ok(Drop(input, 2), OpGe)
    ELSE IF tag(<<"<", "=">>, input).ok THEN Ok(Drop(input, 2), OpLe)
    ELSE IF tag(<<"!", "=">>, input).ok THEN Ok(Drop(input, 2), OpNe)
    ELSE IF tag(<<">">>, input).ok THEN Ok(Drop(input, 1), OpGt)
    ELSE IF tag(<<"<">>, input).ok THEN Ok(Drop(input, 1), OpLt)
    ELSE Err

\* map_res(digit1, |s| s.parse::<usize>().map(CompareTo::Value))
parse_value(input) ==
    With(PrefixLen(input, Digits), LAMBDA n :
        IF n = 0 THEN Err
        ELSE With(parse_usize(Take(input, n)), LAMBDA v :
                IF v.ok THEN Ok(Drop(input, n), CompareToValue(v.val)) ELSE Err))

parse_compare_to(input) ==
    With(parse_state_name(input), LAMBDA s :
        IF s.ok THEN Ok(s.rest, CompareToState(s.val)) ELSE parse_value(input))

parse_condition(input) ==
    With(parse_state_name(input), LAMBDA s :
        IF ~s.ok THEN Err
        ELSE With(parse_operator(multispace0(s.rest)), LAMBDA o :
                IF ~o.ok THEN Err
                ELSE With(parse_compare_to(multispace0(o.rest)), LAMBDA c :
                        IF ~c.ok THEN Err
                        ELSE Ok(c.rest, Condition(s.val, o.val, c.val)))))

\* delimited(multispace0, char(';'), multispace0)
parse_separator(input) ==
    With(multispace0(input), LAMBDA i :
        IF i # <<>> /\ Head(i) = ";" THEN Ok(multispace0(Tail(i)), ";")
        ELSE Err)

RECURSIVE separated_list1_loop(_, _)
\* nom::multi::separated_list1 after its first element: a separator or an
\* element that fails ends the list at the input BEFORE the separator
separated_list1_loop(i, res) ==
    With(parse_separator(i), LAMBDA s :
        IF ~s.ok THEN Ok(i, res)
        ELSE With(parse_condition(s.rest), LAMBDA e :
                IF ~e.ok THEN Ok(i, res)
                ELSE IF Len(e.rest) = Len(i) THEN Err
                ELSE separated_list1_loop(e.rest, Append(res, e.val))))

parse_conditions(input) ==
    With(parse_condition(input), LAMBDA e :
        IF ~e.ok THEN Err ELSE separated_list1_loop(e.rest, <<e.val>>))

(***************************************************************************)
(* Option<T>                                                               *)
(***************************************************************************)
Some(v) == [some |-> TRUE, v |-> v]
None == [some |-> FALSE]

(***************************************************************************)
(* Colours                                                                 *)
(***************************************************************************)
\* RulesetColour::Rgba(r, g, b, a) and RulesetColour::Hex(s)
Rgba(r, g, b, a) == [kind |-> "Rgba", rgba |-> <<r, g, b, a>>]
Hex(s) == [kind |-> "Hex", s |-> s]

HexDigits == Digits \cup {"a", "b", "c", "d", "e", "f", "A", "B", "C", "D", "E", "F"}

\* char::to_digit(16)
HexVal(c) ==
    IF c \in Digits THEN DigitVal(c)
    ELSE CASE c \in {"a", "A"} -> 10 [] c \in {"b", "B"} -> 11
           [] c \in {"c", "C"} -> 12 [] c \in {"d", "D"} -> 13
           [] c \in {"e", "E"} -> 14 [] c \in {"f", "F"} -> 15

\* u8::from_str_radix(two characters, 16).unwrap_or(0): a leading '+' is a
\* sign, any other non-hex character makes the component 0
hex_byte(cs) ==
    IF cs[1] = "+"
    THEN (IF cs[2] \in HexDigits THEN HexVal(cs[2]) ELSE 0)
    ELSE IF cs[1] \in HexDigits /\ cs[2] \in HexDigits
         THEN 16 * HexVal(cs[1]) + HexVal(cs[2])
         ELSE 0

\* impl From<RulesetColour> for Color; a Color is kept as its four bytes
color_from(value) ==
    IF value.kind = "Rgba" THEN value.rgba
    ELSE IF Len(value.s) = 9 /\ Head(value.s) = "#"
         THEN <<hex_byte(SubSeq(value.s, 2, 3)), hex_byte(SubSeq(value.s, 4, 5)),
                hex_byte(SubSeq(value.s, 6, 7)), hex_byte(SubSeq(value.s, 8, 9))>>
         ELSE <<0, 0, 0, 0>>

(***************************************************************************)
(* Ruleset                                                                 *)
(*                                                                         *)
(* A description is the JSON text of a ruleset, kept as its structure:     *)
(*   [json_ok, default_state, neighbourhood,                               *)
(*    states: sequence of [name, colour, rules: sequence of [key, out],    *)
(*                         otherwise]]                                     *)
(* in the order of the text.  json_ok = FALSE stands for a text serde      *)
(* rejects before any rule is looked at (syntax, a missing field).         *)
(***************************************************************************)
\* RulesetOutcome
Outcome(next, paint) == [next |-> next, paint |-> paint]

\* Neighbourhood
Individual == [kind |-> "Individual", range |-> Usize(0), include_self |-> TRUE]
Moore(range, include_self) ==
    [kind |-> "Moore", range |-> range, include_self |-> include_self]
VonNeuman(range, include_self) ==
    [kind |-> "VonNeuman", range |-> range, include_self |-> include_self]

\* the orders in which a HashMap with the key set S may be iterated
IterationOrders(S) ==
    {o \in [1..Cardinality(S) -> S] : \A i, j \in 1..Cardinality(S) : o[i] = o[j] => i = j}

\* HashMap<String, RulesetOutcome> from a JSON object: a repeated key keeps
\* the entry written last
rules_map(rules) ==
    [k \in {rules[i].key : i \in DOMAIN rules} |->
        rules[CHOOSE i \in DOMAIN rules :
                /\ rules[i].key = k
                /\ \A j \in DOMAIN rules : rules[j].key = k => j <= i].out]

RECURSIVE parse_rules_loop(_, _, _, _)
\* RulesetState::parse_rules, the loop `for (s, out) in &self.rules`, which
\* visits the keys in the map's iteration order `order`
parse_rules_loop(rules, order, i, acc) ==
    IF i > Len(order) THEN [ok |-> TRUE, parsed_rules |-> acc]
    ELSE With(parse_conditions(order[i]), LAMBDA r :
            IF ~r.ok THEN [ok |-> FALSE]
            ELSE With(Append(acc, <<r.val, rules[order[i]]>>), LAMBDA pushed :
                    parse_rules_loop(rules, order, i + 1, pushed)))

parse_rules(rules, order) == parse_rules_loop(rules, order, 1, <<>>)

\* impl Deserialize for RulesetState
deserialize_state(st, order) ==
    With(rules_map(st.rules), LAMBDA rules :
        With(parse_rules(rules, order), LAMBDA p :
            IF ~p.ok THEN [ok |-> FALSE]
            ELSE [ok |-> TRUE,
                  val |-> [colour |-> st.colour, rules |-> rules,
                           otherwise |-> st.otherwise,
                           parsed_rules |-> p.parsed_rules]]))

StateNames(d) == {d.states[i].name : i \in DOMAIN d.states}

\* the description's entry for state `name` (the one written last)
StateEntry(d, name) ==
    d.states[CHOOSE i \in DOMAIN d.states :
                /\ d.states[i].name = name
                /\ \A j \in DOMAIN d.states : d.states[j].name = name => j <= i]

\* the iteration orders the rule tables of d may get, one per state
RuleOrders(d) ==
    IF ~d.json_ok THEN {<<>>}
    ELSE {o \in [StateNames(d) ->
                   UNION {IterationOrders(DOMAIN rules_map(StateEntry(d, n).rules)) :
                            n \in StateNames(d)}] :
            \A n \in StateNames(d) :
                o[n] \in IterationOrders(DOMAIN rules_map(StateEntry(d, n).rules))}

\* serde_json::from_str::<Ruleset>: #[derive(Deserialize)] on Ruleset, which
\* deserialises every state and checks nothing else
from_str(d, orders) ==
    IF ~d.json_ok THEN [ok |-> FALSE]
    ELSE With({<<n, deserialize_state(StateEntry(d, n), orders[n])>> : n \in StateNames(d)},
              LAMBDA sts :
        IF \E e \in sts : ~e[2].ok THEN [ok |-> FALSE]
        ELSE [ok |-> TRUE,
              val |-> [default_state |-> d.default_state,
                       neighbourhood |-> d.neighbourhood,
                       states |-> [n \in StateNames(d) |->
                                     (CHOOSE e \in sts : e[1] = n)[2].val]]])

(***************************************************************************)
(* Neighbourhood::get_neighbours                                           *)
(***************************************************************************)
\* the RangeInclusive a..=b as the sequence of its values (empty when a > b)
range_inclusive(a, b) == [i \in 1..(b - a + 1) |-> a + i - 1]

\* the two nested loops of the Moore arm without the `continue`: every pair
\* of the values ds, dx slowest
moore_loop(ds) ==
    [k \in 1..(Len(ds) * Len(ds)) |->
        <<ds[((k - 1) \div Len(ds)) + 1], ds[((k - 1) % Len(ds)) + 1]>>]

RECURSIVE von_neuman_loop_three_sides(_, _, _)
\* the VonNeuman loop without the offset (0, -d)
von_neuman_loop_three_sides(d, range, acc) ==
    IF d > range THEN acc
    ELSE von_neuman_loop_three_sides(d + 1, range,
                         acc \o << <<d, 0>>, <<0, d>>, <<-d, 0>> >>)

RECURSIVE von_neuman_loop(_, _, _)
\* `for d in 1..=(*range as isize)` with the four pushes of its body
von_neuman_loop(d, range, acc) ==
    IF d > range THEN acc
    ELSE von_neuman_loop(d + 1, range,
                         acc \o << <<d, 0>>, <<0, d>>, <<-d, 0>>, <<0, -d>> >>)

\* get_neighbours without the test of include_self: the cell itself is always
\* among its Moore neighbours
get_neighbours_with_self(nb) ==
    IF nb.kind = "Individual" THEN << <<0, 0>> >>
    ELSE IF nb.kind = "Moore"
    THEN moore_loop(range_inclusive(-as_isize(nb.range), as_isize(nb.range)))
    ELSE von_neuman_loop(1, as_isize(nb.range),
                         IF nb.include_self THEN << <<0, 0>> >> ELSE <<>>)

get_neighbours(nb) ==
    IF nb.kind = "Individual" THEN << <<0, 0>> >>
    ELSE IF nb.kind = "Moore"
    THEN LET keep(o) == ~(~nb.include_self /\ o[1] = 0 /\ o[2] = 0)
         IN SelectSeq(moore_loop(range_inclusive(-as_isize(nb.range),
                                                 as_isize(nb.range))), keep)
    ELSE von_neuman_loop(1, as_isize(nb.range),
                         IF nb.include_self THEN << <<0, 0>> >> ELSE <<>>)

(***************************************************************************)
(* World                                                                   *)
(***************************************************************************)
Cell(state, colour) == [state |-> state, colour |-> colour]

\* a panic: the result of an operation the process did not survive
Panic == [panic |-> TRUE]
Done(val) == [panic |-> FALSE, val |-> val]

\* World::new with one cell less than `width * height`
world_new_one_short(width, height, ruleset) ==
    IF ruleset.default_state \in DOMAIN ruleset.states
    THEN Some([width |-> width, height |-> height,
               cells |-> [i \in 1..(width * height - 1) |->
                            Cell(ruleset.default_state,
                                 color_from(ruleset.states[ruleset.default_state].colour))],
               ruleset |-> ruleset])
    ELSE None

\* World::new with the cells named `d`, the default state of the ruleset main
\* starts with, whatever the ruleset's own default state is
world_new_dead_cells(width, height, ruleset) ==
    IF ruleset.default_state \in DOMAIN ruleset.states
    THEN Some([width |-> width, height |-> height,
               cells |-> [i \in 1..(width * height) |->
                            Cell(<<"d">>,
                                 color_from(ruleset.states[ruleset.default_state].colour))],
               ruleset |-> ruleset])
    ELSE None

\* World::new
world_new(width, height, ruleset) ==
    IF ruleset.default_state \in DOMAIN ruleset.states
    THEN Some([width |-> width, height |-> height,
               cells |-> [i \in 1..(width * height) |->
                            Cell(ruleset.default_state,
                                 color_from(ruleset.states[ruleset.default_state].colour))],
               ruleset |-> ruleset])
    ELSE None

\* World::reset with each cell's colour left as it is
reset_states_only(w) ==
    IF w.ruleset.default_state \in DOMAIN w.ruleset.states
    THEN [w EXCEPT !.cells =
            [i \in 1..(w.width * w.height) |->
                Cell(w.ruleset.default_state, w.cells[i].colour)]]
    ELSE w

\* World::reset
reset(w) ==
    IF w.ruleset.default_state \in DOMAIN w.ruleset.states
    THEN [w EXCEPT !.cells =
            [i \in 1..(w.width * w.height) |->
                Cell(w.ruleset.default_state,
                     color_from(w.ruleset.states[w.ruleset.default_state].colour))]]
    ELSE w

\* get_index with `>` where the code has `>=`: the coordinate `width` (one
\* past the last column) is not wrapped
get_index_off_by_one(w, x, y) ==
    LET x1 == IF x < 0 THEN w.width + x ELSE x
        x2 == IF x1 > w.width THEN x1 - w.width ELSE x1
        y1 == IF y < 0 THEN w.height + y ELSE y
        y2 == IF y1 > w.height THEN y1 - w.height ELSE y1
    IN y2 * w.width + x2

\* World::get_index.  The value is the isize `y * width + x` before the cast
\* `as usize`; the cast is one-to-one, and a negative value becomes an index
\* of at least 2^63, which no Vec has.
get_index(w, x, y) ==
    LET x1 == IF x < 0 THEN w.width + x ELSE x
        x2 == IF x1 >= w.width THEN x1 - w.width ELSE x1
        y1 == IF y < 0 THEN w.height + y ELSE y
        y2 == IF y1 >= w.height THEN y1 - w.height ELSE y1
    IN y2 * w.width + x2

\* the index check of `self.cells[index]`: the 0-based index i is in the Vec
index_in_bounds(cells, i) == 0 <= i /\ i < Len(cells)

\* World::get_cell: Panic when the index is out of bounds
get_cell(w, x, y) ==
    With(get_index(w, x, y), LAMBDA i :
        IF index_in_bounds(w.cells, i) THEN Done(w.cells[i + 1]) ELSE Panic)

\* World::set_cell: Panic when the index is out of bounds
set_cell(w, x, y, cell) ==
    With(get_index(w, x, y), LAMBDA i :
        IF index_in_bounds(w.cells, i)
        THEN Done([w EXCEPT !.cells[i + 1] = cell]) ELSE Panic)

RECURSIVE get_neighbourhood_loop(_, _, _, _, _, _)
get_neighbourhood_loop(w, x, y, offsets, k, neighbour_counts) ==
    IF k > Len(offsets) THEN Done(neighbour_counts)
    ELSE With(get_cell(w, x + offsets[k][1], y + offsets[k][2]), LAMBDA cell :
            IF cell.panic THEN Panic
            ELSE With(IF cell.val.state \in DOMAIN neighbour_counts
                      THEN [neighbour_counts EXCEPT ![cell.val.state] = @ + 1]
                      ELSE neighbour_counts @@ (cell.val.state :> 1),
                      LAMBDA counted :
                    get_neighbourhood_loop(w, x, y, offsets, k + 1, counted)))

\* World::get_neighbourhood: the census, a map from the states seen to their
\* counts (a state that is not seen has no entry)
get_neighbourhood(w, x, y) ==
    With(get_neighbours(w.ruleset.neighbourhood), LAMBDA offsets :
        get_neighbourhood_loop(w, x, y, offsets, 1, <<>>))

(***************************************************************************)
(* RulesetState::transition                                                *)
(***************************************************************************)
\* count_of with 1 where the code has 0: a state that is not in the census
\* counts as one neighbour
count_of_unseen_one(neighbours, name) ==
    IF name \in DOMAIN neighbours THEN ToDigits(neighbours[name]) ELSE <<"1">>

\* neighbours.get(name).unwrap_or(&0)
count_of(neighbours, name) ==
    IF name \in DOMAIN neighbours THEN ToDigits(neighbours[name]) ELSE <<"0">>

\* the closure of `conditions.iter().all(..)`
condition_holds(c, neighbours) ==
    With(count_of(neighbours, c.state), LAMBDA neighbour_value :
        With(IF c.compare_to.kind = "State"
             THEN count_of(neighbours, c.compare_to.name)
             ELSE c.compare_to.v, LAMBDA value :
            CASE c.op = OpEq -> neighbour_value = value
              [] c.op = OpGt -> NatLess(value, neighbour_value)
              [] c.op = OpGe -> ~NatLess(neighbour_value, value)
              [] c.op = OpLt -> NatLess(neighbour_value, value)
              [] c.op = OpLe -> ~NatLess(value, neighbour_value)
              [] c.op = OpNe -> neighbour_value # value))

rule_fires(conditions, neighbours) ==
    \A i \in DOMAIN conditions : condition_holds(conditions[i], neighbours)

\* rules.iter().find(..).map(|(_, o)| o).or(self.otherwise.as_ref())
transition(rules, neighbours) ==
    With({i \in DOMAIN rules.parsed_rules :
            rule_fires(rules.parsed_rules[i][1], neighbours)}, LAMBDA firing :
        IF firing # {}
        THEN Some(rules.parsed_rules[Min(firing)][2])
        ELSE rules.otherwise)

(***************************************************************************)
(* World::next_generation                                                  *)
(***************************************************************************)
\* the write `new_generation[self.get_index(x, y)] = Cell {..}` for the
\* outcome `next`.  The argument of unwrap_or is evaluated before unwrap_or
\* is called, so an outcome whose `next` is no key of states panics with or
\* without a paint.
apply_outcome(w, new_generation, x, y, next) ==
    IF next.next \notin DOMAIN w.ruleset.states THEN Panic
    ELSE With(IF next.paint.some THEN next.paint.v
              ELSE w.ruleset.states[next.next].colour, LAMBDA colour :
            Done([new_generation EXCEPT ![get_index(w, x, y) + 1] =
                    Cell(next.next, color_from(colour))]))

\* the body of the scan without the second buffer: the census and the cell
\* are read from the grid the scan writes to
next_cell_in_place(w, new_generation, x, y) ==
    With([w EXCEPT !.cells = new_generation], LAMBDA v :
    With(get_neighbourhood(v, x, y), LAMBDA neighbour_counts :
    With(get_cell(v, x, y), LAMBDA current_cell :
        IF neighbour_counts.panic \/ current_cell.panic THEN Panic
        ELSE IF current_cell.val.state \in DOMAIN w.ruleset.states
        THEN With(transition(w.ruleset.states[current_cell.val.state],
                             neighbour_counts.val), LAMBDA next :
                IF next.some THEN apply_outcome(w, new_generation, x, y, next.v)
                ELSE Done(new_generation))
        ELSE Done(new_generation))))

\* the body of the scan for the cell (x, y): the census and the cell are
\* read from self.cells, the result is written to new_generation
next_cell(w, new_generation, x, y) ==
    With(get_neighbourhood(w, x, y), LAMBDA neighbour_counts :
    With(get_cell(w, x, y), LAMBDA current_cell :
        IF neighbour_counts.panic \/ current_cell.panic THEN Panic
        ELSE IF current_cell.val.state \in DOMAIN w.ruleset.states
        THEN With(transition(w.ruleset.states[current_cell.val.state],
                             neighbour_counts.val), LAMBDA next :
                IF next.some THEN apply_outcome(w, new_generation, x, y, next.v)
                ELSE Done(new_generation))
        ELSE Done(new_generation)))

RECURSIVE next_generation_row(_, _, _, _)
\* `for x in 0..self.width { .. }` in row y, from column x on
next_generation_row(w, new_generation, x, y) ==
    IF x >= w.width THEN Done(new_generation)
    ELSE With(next_cell(w, new_generation, x, y), LAMBDA r :
            IF r.panic THEN Panic
            ELSE next_generation_row(w, r.val, x + 1, y))

RECURSIVE next_generation_loop(_, _, _)
\* `for y in 0..self.height { .. }`, from row y on
next_generation_loop(w, new_generation, y) ==
    IF y >= w.height THEN Done(new_generation)
    ELSE With(next_generation_row(w, new_generation, 0, y), LAMBDA r :
            IF r.panic THEN Panic
            ELSE next_generation_loop(w, r.val, y + 1))

next_generation(w) ==
    With(next_generation_loop(w, w.cells, 0), LAMBDA r :
        IF r.panic THEN Panic ELSE Done([w EXCEPT !.cells = r.val]))

(***************************************************************************)
(* World::randomise and World::spawn_group.  The random source is an       *)
(* argument: `choice` gives the name drawn for each cell, `hits` the box   *)
(* positions <<dx, dy>> for which rand::rand() < u32::MAX / 3.             *)
(***************************************************************************)
randomise(w, choice) ==
    [w EXCEPT !.cells =
        [i \in 1..Len(w.cells) |->
            Cell(choice[i], color_from(w.ruleset.states[choice[i]].colour))]]

\* the body of the loops for the box position (dx, dy)
spawn_cell(w, x, y, dx, dy, cell, hits) ==
    IF x + dx - 1 < w.width /\ y + dy - 1 < w.height /\ <<dx, dy>> \in hits
    THEN set_cell(w, x + dx - 1, y + dy - 1, cell)
    ELSE Done(w)

RECURSIVE spawn_group_column(_, _, _, _, _, _, _, _)
\* `for dy in 0..size { .. }` for one dx, from dy on
spawn_group_column(w, x, y, size, cell, hits, dx, dy) ==
    IF dy >= size THEN Done(w)
    ELSE With(spawn_cell(w, x, y, dx, dy, cell, hits), LAMBDA r :
            IF r.panic THEN Panic
            ELSE spawn_group_column(r.val, x, y, size, cell, hits, dx, dy + 1))

RECURSIVE spawn_group_loop(_, _, _, _, _, _, _)
\* `for dx in 0..size { .. }`, from dx on
spawn_group_loop(w, x, y, size, cell, hits, dx) ==
    IF dx >= size THEN Done(w)
    ELSE With(spawn_group_column(w, x, y, size, cell, hits, dx, 0), LAMBDA r :
            IF r.panic THEN Panic
            ELSE spawn_group_loop(r.val, x, y, size, cell, hits, dx + 1))

\* spawn_group without the lookup of `state` in the ruleset: the cell is set
\* whatever the name, in the colour Color's default gives (all zero) when the
\* state is not defined
spawn_group_unchecked(w, x, y, size, state, hits) ==
    With(Cell(state, IF state \in DOMAIN w.ruleset.states
                     THEN color_from(w.ruleset.states[state].colour)
                     ELSE <<0, 0, 0, 0>>), LAMBDA cell :
        IF size = 0 THEN Done(w)
        ELSE IF size = 1 THEN set_cell(w, x, y, cell)
        ELSE spawn_group_loop(w, x, y, size, cell, hits, 0))

spawn_group(w, x, y, size, state, hits) ==
    IF state \notin DOMAIN w.ruleset.states THEN Done(w)
    ELSE With(Cell(state, color_from(w.ruleset.states[state].colour)), LAMBDA cell :
            IF size = 0 THEN Done(w)
            ELSE IF size = 1 THEN set_cell(w, x, y, cell)
            ELSE spawn_group_loop(w, x, y, size, cell, hits, 0))

(***************************************************************************)
(* Ruleset descriptions                                                    *)
(***************************************************************************)
Description(id, default_state, neighbourhood, sts) ==
    [id |-> id, json_ok |-> TRUE, default_state |-> default_state,
     neighbourhood |-> neighbourhood, states |-> sts]

StateDesc(name, colour, rules, otherwise) ==
    [name |-> name, colour |-> colour, rules |-> rules, otherwise |-> otherwise]

Rule(key, next, paint) == [key |-> key, out |-> Outcome(next, paint)]

Black == Rgba(0, 0, 0, 255)
White == Hex(<<"#", "f", "f", "f", "f", "f", "f", "f", "f">>)
Red == Rgba(255, 0, 0, 255)
Cyan == Hex(<<"#", "0", "0", "f", "f", "f", "f", "c", "2">>)
Green == Hex(<<"#", "0", "0", "F", "F", "0", "0", "8", "0">>)

\* rulesets/game_of_life.json, the ruleset main starts with: two states,
\* Moore range 1 without self; `d` is dead, `a` is alive
GameOfLife ==
    Description("game_of_life", <<"d">>, Moore(Usize(1), FALSE),
        << StateDesc(<<"d">>, Black,
               << Rule(<<"$", "a", " ", "=", "=", " ", "3">>, <<"a">>, None) >>,
               None),
           StateDesc(<<"a">>, White,
               << Rule(<<"$", "a", " ", "<", " ", "2">>, <<"d">>, None),
                  Rule(<<"$", "a", " ", ">", " ", "3">>, <<"d">>, None) >>,
               None) >>)

\* two rules of state `a` that both hold once two neighbours are `a`
Overlap ==
    Description("overlap", <<"a">>, VonNeuman(Usize(1), TRUE),
        << StateDesc(<<"a">>, Red,
               << Rule(<<"$", "a", ">", "=", "1">>, <<"b">>, None),
                  Rule(<<"$", "a", ">", "=", "2">>, <<"a">>, Some(Cyan)) >>,
               None),
           StateDesc(<<"b">>, Black,
               << Rule(<<"$", "b", "<", "$", "a">>, <<"a">>, None) >>,
               None) >>)

\* a fallback with a paint (state `a`) and a state without a fallback (`b`)
Fallback ==
    Description("fallback", <<"a">>, VonNeuman(Usize(1), FALSE),
        << StateDesc(<<"a">>, Red,
               << Rule(<<"$", "b", " ", ">", "=", " ", "2">>, <<"a">>, Some(Green)) >>,
               Some(Outcome(<<"b">>, Some(Cyan)))),
           StateDesc(<<"b">>, Black,
               << Rule(<<"$", "a", ">", "$", "b">>, <<"a">>, None) >>,
               None) >>)

\* a fallback without a paint (state `c`) and a state without rules (`a`)
FallbackPlain ==
    Description("fallback_plain", <<"c">>, Moore(Usize(1), TRUE),
        << StateDesc(<<"c">>, White,
               << Rule(<<"$", "c", "!", "=", "$", "a", " ", ";", "$", "a", "<", "=", "4">>,
                       <<"c">>, Some(Green)) >>,
               Some(Outcome(<<"a">>, None))),
           StateDesc(<<"a">>, Red, << >>, None) >>)

\* outcomes whose `next` is no key of `states`: a rule without a paint
\* (state `a`) and a fallback with a paint (state `b`)
MissingNext ==
    Description("missing_next", <<"a">>, Moore(Usize(1), TRUE),
        << StateDesc(<<"a">>, Red,
               << Rule(<<"$", "a", "<", "2">>, <<"x">>, None) >>,
               None),
           StateDesc(<<"b">>, Black,
               << Rule(<<"$", "a", "=", "=", "0">>, <<"a">>, None) >>,
               Some(Outcome(<<"x">>, Some(Cyan)))) >>)

\* a default state that is no key of `states`
BadDefault ==
    Description("bad_default", <<"x">>, Individual,
        << StateDesc(<<"a">>, Red, << >>, None),
           StateDesc(<<"c">>, White, << >>, Some(Outcome(<<"a">>, None))) >>)

\* a rule key without the `$` (the key of ruleset.rs's deserialisation test)
BadRule ==
    Description("bad_rule", <<"a">>, Individual,
        << StateDesc(<<"a">>, Red,
               << Rule(<<"a", " ", ">", " ", "2">>, <<"a">>, Some(Cyan)) >>,
               None) >>)

\* a ruleset whose neighbourhood reaches two cells in each direction
Wide ==
    Description("wide", <<"a">>, VonNeuman(Usize(2), TRUE),
        << StateDesc(<<"a">>, Red,
               << Rule(<<"$", "b", ">", "2">>, <<"b">>, None) >>,
               None),
           StateDesc(<<"b">>, Black, << >>, Some(Outcome(<<"a">>, None))) >>)

\* a ruleset of one state
Single ==
    Description("single", <<"a">>, Individual,
        << StateDesc(<<"a">>, Red, << >>, None) >>)

\* a ruleset text with "states": {}
NoStates == Description("no_states", <<"a">>, Individual, << >>)

\* a text serde_json rejects
BadJson ==
    [id |-> "bad_json", json_ok |-> FALSE, default_state |-> <<>>,
     neighbourhood |-> Individual, states |-> <<>>]

Descriptions ==
    {GameOfLife, Overlap, Fallback, FallbackPlain, MissingNext, BadDefault,
     BadRule, BadJson}

\* what serde_json::from_str::<Ruleset> may return for each description, one
\* result per iteration order of its rule tables
from_str_results ==
    [id \in {d.id : d \in Descriptions \cup {Wide, Single, NoStates}} |->
        LET d == CHOOSE e \in Descriptions \cup {Wide, Single, NoStates} : e.id = id
        IN {from_str(d, orders) : orders \in RuleOrders(d)}]

(***************************************************************************)
(* The state machine                                                       *)
(***************************************************************************)
\* the grid holds at most MaxCells cells
MaxCells == 4

\* Config::default(), as far as the selector goes: Spawn::default()
ConfigDefault == [spawn |-> [spawn_state |-> 0]]

Dims == {d \in (1..MaxCells) \X (1..MaxCells) : d[1] * d[2] <= MaxCells}

\* main, up to the loop: the Game of Life ruleset, a world of the window's
\* size, randomised
Init ==
    \E dim \in Dims, orders \in RuleOrders(GameOfLife) :
        LET ruleset == from_str(GameOfLife, orders).val
            new == world_new(dim[1], dim[2], ruleset).v
        IN /\ states \in IterationOrders(DOMAIN ruleset.states)
           /\ \E choice \in [1..Len(new.cells) -> DOMAIN ruleset.states] :
                 world = randomise(new, choice)
           /\ panicked = FALSE
           /\ last = [op |-> "main"]
           /\ config = ConfigDefault

\* main's reload of an edited ruleset text d (the body of `if ruleset_changed`)
Reload(d) ==
    /\ ~panicked
    /\ \E ruleset \in from_str_results[d.id] :
          IF ruleset.ok
          THEN LET new_world == world_new(world.width, world.height, ruleset.val)
               IN /\ states' \in IterationOrders(DOMAIN ruleset.val.states)
                  /\ world' = IF new_world.some THEN new_world.v ELSE world
                  /\ last' = [op |-> "reload", description |-> d.id,
                              ruleset |-> ruleset, created |-> new_world.some]
          ELSE /\ UNCHANGED <<states, world>>
               /\ last' = [op |-> "reload", description |-> d.id,
                           ruleset |-> ruleset, created |-> FALSE]
    /\ UNCHANGED <<panicked, config>>

\* world.next_generation()
NextGeneration ==
    /\ ~panicked
    /\ \E r \in {next_generation(world)} :
          /\ panicked' = r.panic
          /\ world' = IF r.panic THEN world ELSE r.val
    /\ last' = [op |-> "next_generation", before |-> world.cells]
    /\ UNCHANGED <<states, config>>

\* world.randomise()
Randomise ==
    /\ ~panicked
    /\ \E choice \in [1..Len(world.cells) -> DOMAIN world.ruleset.states] :
          world' = randomise(world, choice)
    /\ last' = [op |-> "randomise"]
    /\ UNCHANGED <<states, panicked, config>>

\* world.reset()
Reset ==
    /\ ~panicked
    /\ world' = reset(world)
    /\ last' = [op |-> "reset", before |-> world.cells]
    /\ UNCHANGED <<states, panicked, config>>

Next ==
    \/ \E d \in Descriptions : Reload(d)
    \/ NextGeneration
    \/ Randomise
    \/ Reset

Spec == Init /\ [][Next]_vars

DescriptionOf(id) == CHOOSE d \in Descriptions : d.id = id

\* the world as it was before the generation that `last` records
WorldBefore == [world EXCEPT !.cells = last.before]

\* the coordinates of the cell with the 0-based index k
XOf(w, k) == k % w.width
YOf(w, k) == k \div w.width

\* a census may count up to MaxCount cells of a state
MaxCount == 3

\* the censuses over the state names S
Censuses(S) == UNION {[T -> 1..MaxCount] : T \in SUBSET S}

\* the outcome of the rule written first, in the description's text, among
\* the rules of state entry st whose conditions all hold for the census
FirstDeclared(st, census) ==
    With({i \in DOMAIN st.rules :
            rule_fires(parse_conditions(st.rules[i].key).val, census)},
         LAMBDA firing :
        IF firing # {}
        THEN Some(st.rules[Min(firing)].out)
        ELSE st.otherwise)

\* C2: for every loaded ruleset, every state and every census, transition
\* returns the outcome of the first rule, in the order of the description,
\* whose conditions hold, whatever the iteration order of the rule table was
C2_RuleDeterminism ==
    (last.op = "reload" /\ last.ruleset.ok) =>
        \A n \in DOMAIN last.ruleset.val.states :
            \A census \in Censuses(DOMAIN last.ruleset.val.states) :
                transition(last.ruleset.val.states[n], census)
                    = FirstDeclared(StateEntry(DescriptionOf(last.description), n), census)

\* the result of the scan's body for the cell with index k, taken from the
\* previous generation alone
CellAlone(w, k) == next_cell(w, w.cells, XOf(w, k), YOf(w, k))

\* C3: a generation aborts exactly when the transition of some cell, taken
\* from the previous generation alone, aborts; otherwise every cell of the
\* new grid is the transition of that cell computed from the previous
\* generation alone (all cells simultaneously, no write of the scan seen)
C3_DoubleBuffering ==
    last.op = "next_generation" =>
        /\ panicked = (\E k \in 0..(Len(last.before) - 1) : CellAlone(WorldBefore, k).panic)
        /\ ~panicked =>
              \A k \in 0..(Len(last.before) - 1) :
                  world.cells[k + 1] = CellAlone(WorldBefore, k).val[k + 1]

\* a generation in which the first and the last cell of the scan both change
\* (on these grids every cell is in the census of every other cell or of a
\* neighbour)
C3_Witness ==
    /\ last.op = "next_generation" /\ ~panicked
    /\ Len(world.cells) > 1
    /\ world.cells[1] # last.before[1]
    /\ world.cells[Len(world.cells)] # last.before[Len(world.cells)]

\* no rule of the state of cell k fires on the cell's census
NoRuleFires(w, k) ==
    \A i \in DOMAIN w.ruleset.states[w.cells[k + 1].state].parsed_rules :
        ~rule_fires(w.ruleset.states[w.cells[k + 1].state].parsed_rules[i][1],
                    get_neighbourhood(w, XOf(w, k), YOf(w, k)).val)

\* the `otherwise` of the state of cell k
OtherwiseOf(w, k) == w.ruleset.states[w.cells[k + 1].state].otherwise

\* C4: after next_generation, a cell on whose census no rule of its state
\* fired is in the next state of its state's `otherwise`, coloured with the
\* outcome's paint (or, without a paint, with the next state's colour), and
\* a cell whose state has no `otherwise` keeps its state and colour
C4_FallbackSemantics ==
    last.op = "next_generation" =>
        \A k \in 0..(Len(last.before) - 1) :
            NoRuleFires(WorldBefore, k) =>
                IF OtherwiseOf(WorldBefore, k).some
                THEN /\ ~panicked
                     /\ world.cells[k + 1].state = OtherwiseOf(WorldBefore, k).v.next
                     /\ OtherwiseOf(WorldBefore, k).v.paint.some =>
                           world.cells[k + 1].colour
                               = color_from(OtherwiseOf(WorldBefore, k).v.paint.v)
                     /\ (/\ ~OtherwiseOf(WorldBefore, k).v.paint.some
                         /\ OtherwiseOf(WorldBefore, k).v.next \in DOMAIN world.ruleset.states)
                        => world.cells[k + 1].colour
                              = color_from(world.ruleset.states[
                                    OtherwiseOf(WorldBefore, k).v.next].colour)
                ELSE world.cells[k + 1] = last.before[k + 1]

\* some rule or fallback of the description names a next state that the
\* description does not define
HasUndefinedNext(d) ==
    \E i \in DOMAIN d.states :
        \/ \E j \in DOMAIN d.states[i].rules :
              d.states[i].rules[j].out.next \notin StateNames(d)
        \/ /\ d.states[i].otherwise.some
           /\ d.states[i].otherwise.v.next \notin StateNames(d)

\* C9: a description with an undefined next state is not constructed, and
\* no generation aborts
C9_MissingOutcomeRejected ==
    /\ (last.op = "reload" /\ HasUndefinedNext(DescriptionOf(last.description)))
          => ~last.ruleset.ok
    /\ ~panicked

\* C10: a description whose default_state is no key of states is not
\* constructed: every constructed Ruleset has its default_state among the
\* keys of states
C10_DefaultStateValidated ==
    (last.op = "reload" /\ last.ruleset.ok) =>
        last.ruleset.val.default_state \in DOMAIN last.ruleset.val.states

\* C11: a reload whose description is rejected (the text does not
\* deserialise, or World::new finds no default state) leaves the world as it
\* was and does not stop the driver, and the next_generation call that follows
\* it advances that world without stopping
C11_LoadErrorsRecoverable ==
    [][/\ (last'.op = "reload" /\ ~last'.created) => (world' = world /\ ~panicked')
       /\ (last.op = "reload" /\ ~last.created /\ last'.op = "next_generation")
             => (~panicked' /\ world' = next_generation(world).val)]_vars

\* the outcome that transition gives for the cell with the index k of w
OutcomeOf(w, k) ==
    transition(w.ruleset.states[w.cells[k + 1].state],
               get_neighbourhood(w, XOf(w, k), YOf(w, k)).val)

\* C18: after next_generation, a cell for which transition gave an outcome
\* (of a rule or of `otherwise`) is in the state outcome.next, coloured with
\* outcome.paint when there is a paint, whatever the definition of the next
\* state, and with the default colour of the state outcome.next otherwise
C18_ColourResolution ==
    last.op = "next_generation" =>
        \A k \in 0..(Len(last.before) - 1) :
            OutcomeOf(WorldBefore, k).some =>
                /\ ~panicked
                /\ world.cells[k + 1].state = OutcomeOf(WorldBefore, k).v.next
                /\ OutcomeOf(WorldBefore, k).v.paint.some =>
                      world.cells[k + 1].colour
                          = color_from(OutcomeOf(WorldBefore, k).v.paint.v)
                /\ (/\ ~OutcomeOf(WorldBefore, k).v.paint.some
                    /\ OutcomeOf(WorldBefore, k).v.next \in DOMAIN world.ruleset.states)
                   => world.cells[k + 1].colour
                         = color_from(world.ruleset.states[
                               OutcomeOf(WorldBefore, k).v.next].colour)

\* every cell is in a state that the world's ruleset defines: no reload,
\* generation, randomise, reset or spawn leaves a cell for which
\* next_generation would find no RulesetState (main.rs:146-151)
CellsInRuleset ==
    \A i \in DOMAIN world.cells : world.cells[i].state \in DOMAIN world.ruleset.states

\* C15: World::new(width, height, ruleset) returns a world of exactly
\* width * height cells, each in the ruleset's default state with that
\* state's colour, and no world when the default state is no key of the
\* ruleset's states
C15_WorldNew ==
    (last.op = "reload" /\ last.ruleset.ok) =>
        IF last.ruleset.val.default_state \in DOMAIN last.ruleset.val.states
        THEN /\ last.created
             /\ world.ruleset = last.ruleset.val
             /\ Len(world.cells) = world.width * world.height
             /\ \A i \in DOMAIN world.cells :
                   /\ world.cells[i].state = last.ruleset.val.default_state
                   /\ world.cells[i].colour =
                         color_from(last.ruleset.val.states[
                                        last.ruleset.val.default_state].colour)
        ELSE ~last.created

\* a world of width 1 and height 2 has been made for the `fallback_plain`
\* ruleset, both cells in its default state `c`
C15_Witness ==
    /\ last.op = "reload" /\ last.created
    /\ last.description = "fallback_plain"
    /\ world.width = 1 /\ world.height = 2
    /\ world.cells = << Cell(<<"c">>, <<255, 255, 255, 255>>),
                        Cell(<<"c">>, <<255, 255, 255, 255>>) >>

(***************************************************************************)
(* Index resolution on its own: any world, any coordinate, any multiple of *)
(* the grid's width and height                                             *)
(***************************************************************************)
\* coordinates run over -MaxCoord..MaxCoord, multiples over -MaxK..MaxK
MaxCoord == 8
MaxK == 2

the_ruleset(d) == (CHOOSE r \in from_str_results[d.id] : r.ok).val

InitIndex ==
    /\ \E dim \in Dims : world = world_new(dim[1], dim[2], the_ruleset(GameOfLife)).v
    /\ states \in IterationOrders(DOMAIN world.ruleset.states)
    /\ panicked = FALSE
    /\ last = [op |-> "main"]
    /\ config = ConfigDefault

\* self.get_index at (x, y), at (x + k * width, y) and at (x, y + k * height)
GetIndex(x, y, k) ==
    /\ last' = [op |-> "get_index", x |-> x, y |-> y, k |-> k,
                index |-> get_index(world, x, y),
                index_kw |-> get_index(world, x + k * world.width, y),
                index_kh |-> get_index(world, x, y + k * world.height)]
    /\ UNCHANGED <<world, states, panicked, config>>

\* one coordinate is resolved in a run
NextIndex ==
    /\ last.op = "main"
    /\ \E x, y \in -MaxCoord..MaxCoord, k \in -MaxK..MaxK : GetIndex(x, y, k)

SpecIndex == InitIndex /\ [][NextIndex]_vars

\* x and y are within one grid width and height of the grid
SingleWrap(x, y) ==
    /\ -world.width <= x /\ x < 2 * world.width
    /\ -world.height <= y /\ y < 2 * world.height

\* C1 (as amended): whenever (x, y), (x + k*W, y) and (x, y + k*H) all lie
\* within one grid width and height of the grid, get_index gives the three
\* the same index, and for 0 <= x < W, 0 <= y < H that index is y*W + x.
C1_SingleWrapIndexing ==
    last.op = "get_index" =>
        /\ (/\ SingleWrap(last.x, last.y)
            /\ SingleWrap(last.x + last.k * world.width, last.y + last.k * world.height))
           => /\ last.index_kw = last.index
              /\ last.index_kh = last.index
        /\ (/\ 0 <= last.x /\ last.x < world.width
            /\ 0 <= last.y /\ last.y < world.height)
           => last.index = last.y * world.width + last.x

\* a coordinate left of and above the grid, moved by one width and by one
\* height into the grid
C1_Witness ==
    /\ last.op = "get_index"
    /\ world.width > 1 /\ world.height > 1
    /\ last.k = 1 /\ last.x = -1 /\ last.y = -world.height
    /\ last.index_kw = last.index /\ last.index_kh = last.index

\* C1 as stated: for every coordinate and EVERY integer k the three indices
\* agree
C1_ToroidalIndexing ==
    last.op = "get_index" =>
        /\ last.index_kw = last.index
        /\ last.index_kh = last.index
        /\ (/\ 0 <= last.x /\ last.x < world.width
            /\ 0 <= last.y /\ last.y < world.height)
           => last.index = last.y * world.width + last.x

(***************************************************************************)
(* The golden scenario: a blinker on a square grid of dead cells, under    *)
(* the Game of Life ruleset                                                *)
(***************************************************************************)
\* the side of the square grid
GoldenSide == 5

\* a cell of state `name`, in that state's colour
StateCell(ruleset, name) == Cell(name, color_from(ruleset.states[name].colour))

\* the blinker's three live cells: the centre (cx, cy) and its two neighbours
\* along the row (o = "h") or along the column (o = "v")
BlinkerAlive(cx, cy, o) ==
    {IF o = "h" THEN <<(cx + d + GoldenSide) % GoldenSide, cy>>
                ELSE <<cx, (cy + d + GoldenSide) % GoldenSide>> : d \in {-1, 0, 1}}

BlinkerCells(ruleset, cx, cy, o) ==
    [i \in 1..(GoldenSide * GoldenSide) |->
        IF <<(i - 1) % GoldenSide, (i - 1) \div GoldenSide>> \in BlinkerAlive(cx, cy, o)
        THEN StateCell(ruleset, <<"a">>) ELSE StateCell(ruleset, <<"d">>)]

Rotated(o) == IF o = "h" THEN "v" ELSE "h"

InitGolden ==
    /\ \E ruleset \in from_str_results[GameOfLife.id] :
       \E cx, cy \in 0..(GoldenSide - 1), o \in {"h", "v"} :
          world = [world_new(GoldenSide, GoldenSide, ruleset.val).v
                      EXCEPT !.cells = BlinkerCells(ruleset.val, cx, cy, o)]
    /\ states \in IterationOrders(DOMAIN world.ruleset.states)
    /\ panicked = FALSE
    /\ last = [op |-> "main"]
    /\ config = ConfigDefault

NextGolden == NextGeneration

SpecGolden == InitGolden /\ [][NextGolden]_vars

\* C5: a call of next_generation on a grid that holds a blinker yields the
\* blinker turned by 90 degrees about its centre, and the call after it
\* yields the grid the first call started from
C5_GoldenBlinker ==
    /\ [](last.op = "next_generation" =>
            /\ ~panicked
            /\ \E cx, cy \in 0..(GoldenSide - 1), o \in {"h", "v"} :
                  /\ last.before = BlinkerCells(world.ruleset, cx, cy, o)
                  /\ world.cells = BlinkerCells(world.ruleset, cx, cy, Rotated(o)))
    /\ [][last.op = "next_generation" => world'.cells = last.before]_vars

\* the blinker lying along the middle row has become the blinker standing in
\* the middle column
C5_Witness ==
    /\ last.op = "next_generation"
    /\ last.before = BlinkerCells(world.ruleset, 2, 2, "h")
    /\ world.cells = BlinkerCells(world.ruleset, 2, 2, "v")

(***************************************************************************)
(* Spawning: the driver's calls of spawn_group, between reloads of the     *)
(* ruleset text                                                            *)
(***************************************************************************)
\* the sizes the driver's spawn sliders are tried with
SpawnSizes == {0, 1, 2}

\* the ruleset texts the editor is tried with
SpawnDescriptions == {GameOfLife, BadDefault}

\* world.spawn_group(x, y, size, &states[i]); `hits` are the box positions
\* for which the random draw is below u32::MAX / 3
SpawnGroup(x, y, size, i, hits) ==
    /\ ~panicked
    /\ x < world.width /\ y < world.height
    /\ i \in DOMAIN states
    /\ hits \subseteq (0..(size - 1)) \X (0..(size - 1))
    /\ \E r \in {spawn_group(world, x, y, size, states[i], hits)} :
          /\ panicked' = r.panic
          /\ world' = IF r.panic THEN world ELSE r.val
    /\ last' = [op |-> "spawn_group", x |-> x, y |-> y, size |-> size,
                state |-> states[i]]
    /\ UNCHANGED <<states, config>>

NextSpawn ==
    \/ \E d \in SpawnDescriptions : Reload(d)
    \/ \E x, y \in 0..(MaxCells - 1), size \in SpawnSizes, i \in 1..2 :
       \E hits \in SUBSET ((0..(size - 1)) \X (0..(size - 1))) :
          SpawnGroup(x, y, size, i, hits)

SpecSpawn == InitIndex /\ [][NextSpawn]_vars

\* the step is a call spawn_group(x, y, size, state) that returned
SpawnStep(size) ==
    /\ last'.op = "spawn_group" /\ last'.size = size
    /\ ~panicked'

\* the cell at (x, y) of the step's call
SpawnTarget == last'.y * world.width + last'.x + 1

InSpawnBox(k) ==
    \E dx, dy \in 0..(last'.size - 1) :
        /\ last'.x + dx - 1 = (k - 1) % world.width
        /\ last'.y + dy - 1 = (k - 1) \div world.width

\* C17: a call of spawn_group with size > 1 leaves every cell that is at no
\* position of its box unchanged, the cells that a box position outside the
\* grid wraps to included, and leaves each cell at a position of the box
\* either as it was or in `state` with that state's colour
C17_SpawnBoxInBounds ==
    [][(last'.op = "spawn_group" /\ last'.size > 1 /\ ~panicked') =>
          \A k \in DOMAIN world.cells :
              IF InSpawnBox(k) /\ last'.state \in DOMAIN world.ruleset.states
              THEN world'.cells[k]
                      \in {world.cells[k], StateCell(world.ruleset, last'.state)}
              ELSE world'.cells[k] = world.cells[k]]_vars

(***************************************************************************)
(* Loading rule strings: condition lists written out with spacing, then    *)
(* damaged or not, as the one rule key of a ruleset text                   *)
(***************************************************************************)
\* a written list holds at most MaxConds conditions
MaxConds == 2

\* usize::MAX + 1
UsizeOverflowDigits ==
    <<"1", "8", "4", "4", "6", "7", "4", "4", "0", "7",
      "3", "7", "0", "9", "5", "5", "1", "6", "1", "6">>

WrittenState(name) == [kind |-> "State", name |-> name]
WrittenLiteral(digits) == [kind |-> "Literal", digits |-> digits]
Written(state, op, rhs) == [state |-> state, op |-> op, rhs |-> rhs]

\* the conditions a rule string is written from: every operator, state
\* references and literals, a literal with leading zeros, usize::MAX and
\* the number after it
WrittenConds ==
    {Written(<<"a">>, OpEq, WrittenLiteral(<<"2">>)),
     Written(<<"a">>, OpGt, WrittenLiteral(<<"0", "0", "7">>)),
     Written(<<"a">>, OpGe, WrittenLiteral(<<"2">>)),
     Written(<<"a">>, OpLt, WrittenState(<<"_", "c">>)),
     Written(<<"b", "1">>, OpLe, WrittenLiteral(UsizeMaxDigits)),
     Written(<<"a">>, OpNe, WrittenState(<<"a">>)),
     Written(<<"a">>, OpEq, WrittenLiteral(UsizeOverflowDigits))}

WrittenLists == UNION {[1..n -> WrittenConds] : n \in 1..MaxConds}

\* the whitespace written around operators and around `;`
Spacings ==
    {[op |-> <<>>, sep |-> <<>>],
     [op |-> <<" ">>, sep |-> <<" ">>],
     [op |-> <<"\t">>, sep |-> <<"\n", " ">>]}

OpText(op) ==
    CASE op = OpEq -> <<"=", "=">> [] op = OpGe -> <<">", "=">>
      [] op = OpLe -> <<"<", "=">> [] op = OpNe -> <<"!", "=">>
      [] op = OpGt -> <<">">> [] op = OpLt -> <<"<">>

RenderCondition(c, sp) ==
    <<"$">> \o c.state \o sp.op \o OpText(c.op) \o sp.op
        \o (IF c.rhs.kind = "State" THEN <<"$">> \o c.rhs.name ELSE c.rhs.digits)

RECURSIVE Render(_, _)
\* the rule string of a written list
Render(list, sp) ==
    IF Len(list) = 1 THEN RenderCondition(list[1], sp)
    ELSE RenderCondition(list[1], sp) \o sp.sep \o <<";">> \o sp.sep
            \o Render(Tail(list), sp)

\* text put after a rule string
Junk == {<<"x">>, <<";">>, <<" ", "=">>, <<";", " ", "b", ">", "1">>}

\* a rule string as it is, with one character deleted, or with junk after it
Damaged(text) ==
    With(text, LAMBDA t :
        {[text |-> t, damaged |-> FALSE]}
        \cup {[text |-> Take(t, p - 1) \o Drop(t, p), damaged |-> TRUE] :
                 p \in 1..Len(t)}
        \cup {[text |-> t \o j, damaged |-> TRUE] : j \in Junk})

\* the ruleset text whose one state has the one rule key `key`
RuleDescription(key) ==
    Description("rule", <<"a">>, Individual,
        << StateDesc(<<"a">>, Red, << Rule(key, <<"a">>, None) >>, None) >>)

InitParse == InitIndex /\ world.width = 1 /\ world.height = 1

\* serde_json::from_str::<Ruleset> of the text whose rule key is `input`;
\* `parsed` is what parse_conditions returns for the key
Deserialize(list, input) ==
    /\ last' = [op |-> "deserialize", written |-> list, damaged |-> input.damaged,
                input |-> input.text,
                parsed |-> parse_conditions(input.text),
                ruleset |-> from_str(RuleDescription(input.text),
                                     [n \in {<<"a">>} |-> <<input.text>>])]
    /\ UNCHANGED <<world, states, panicked, config>>

\* one text is loaded in a run
NextParse ==
    /\ last.op = "main"
    /\ \E list \in WrittenLists, sp \in Spacings :
          \E input \in Damaged(Render(list, sp)) : Deserialize(list, input)

SpecParse == InitParse /\ [][NextParse]_vars

\* the literals of the written list all fit a usize
LiteralsFit(list) ==
    \A i \in DOMAIN list :
        list[i].rhs.kind = "Literal" => ~NatLess(UsizeMaxDigits, Canon(list[i].rhs.digits))

\* the Condition that a written condition stands for
Meant(c) ==
    Condition(c.state, c.op,
              IF c.rhs.kind = "State" THEN CompareToState(c.rhs.name)
              ELSE CompareToValue(Canon(c.rhs.digits)))

\* the parse consumed the whole rule string and gave the written list
ParsedAsWritten ==
    /\ last.parsed.ok /\ last.parsed.rest = <<>>
    /\ last.parsed.val = [i \in DOMAIN last.written |-> Meant(last.written[i])]
    /\ last.ruleset.ok
    /\ last.ruleset.val.states[<<"a">>].parsed_rules
          = << <<last.parsed.val, Outcome(<<"a">>, None)>> >>

\* C8 (as amended): a rule string written from the grammar whose integer
\* literals do not exceed usize::MAX parses to one condition per written
\* condition, in order, with the state name, operator and right operand
\* written (a two-character operator is never read as `>` or `<`)
C8_ParserLossless ==
    (last.op = "deserialize" /\ ~last.damaged /\ LiteralsFit(last.written))
        => ParsedAsWritten

\* two conditions, the first with `>=`, written with whitespace, have been
\* parsed
C8_Witness ==
    /\ last.op = "deserialize" /\ ~last.damaged
    /\ Len(last.written) = 2 /\ last.written[1].op = OpGe
    /\ last.written[2].rhs.kind = "Literal"
    /\ \E i \in DOMAIN last.input : last.input[i] \in Whitespace
    /\ last.parsed.ok /\ Len(last.parsed.val) = 2

\* C8 as stated: EVERY rule string written from the grammar parses to the
\* written list
C8_EveryGrammarStringParses ==
    (last.op = "deserialize" /\ ~last.damaged) => ParsedAsWritten

\* one step of a recogniser of the grammar
\*   conditions := condition (';' condition)*
\*   condition  := STATE_NAME OP COMPARE_TO, whitespace allowed around OP
\*                 and around ';'
\* q: 0 start of a condition, 1 after `$`, 2 in the left name, 3 whitespace
\* before the operator, 4 after `=` or `!`, 5 after `>` or `<`, 6 after the
\* operator, 7 after the right `$`, 8 in the right name, 9 in the integer,
\* 10 whitespace after the condition, 11 after `;`, -1 no match
GrammarStep(q, c) ==
    CASE q \in {0, 11} /\ c = "$" -> 1
      [] q = 11 /\ c \in Whitespace -> 11
      [] q \in {1, 2} /\ c \in NameChars -> 2
      [] q \in {2, 3} /\ c \in Whitespace -> 3
      [] q \in {2, 3} /\ c \in {"=", "!"} -> 4
      [] q \in {2, 3} /\ c \in {">", "<"} -> 5
      [] q \in {4, 5} /\ c = "=" -> 6
      [] q \in {5, 6} /\ c \in Whitespace -> 6
      [] q \in {5, 6} /\ c = "$" -> 7
      [] q \in {5, 6} /\ c \in Digits -> 9
      [] q \in {7, 8} /\ c \in NameChars -> 8
      [] q = 9 /\ c \in Digits -> 9
      [] q \in {8, 9, 10} /\ c \in Whitespace -> 10
      [] q \in {8, 9, 10} /\ c = ";" -> 11
      [] OTHER -> -1

RECURSIVE GrammarRun(_, _, _)
\* the recogniser's state after text[i..], started in q
GrammarRun(q, text, i) ==
    IF i > Len(text) THEN q
    ELSE With(GrammarStep(q, text[i]), LAMBDA next : GrammarRun(next, text, i + 1))

\* the text matches the grammar in full (whitespace at its end is let pass)
MatchesGrammar(text) == GrammarRun(0, text, 1) \in {8, 9, 10}

\* C7: a rule string that does not match the grammar in full fails to parse
\* and fails the construction of the ruleset
C7_GrammarViolationsRejected ==
    (last.op = "deserialize" /\ ~MatchesGrammar(last.input))
        => (~last.parsed.ok /\ ~last.ruleset.ok)

(***************************************************************************)
(* Neighbourhood offsets on their own: every neighbourhood a ruleset text  *)
(* can carry, with small ranges and with ranges at the top of usize        *)
(***************************************************************************)
\* ranges run over 0..MaxRange and over 2^64 - MaxRange .. 2^64 - 1
MaxRange == 3

Ranges == {Usize(n) : n \in 0..MaxRange} \cup {UsizeTop(k) : k \in 1..MaxRange}

Neighbourhoods ==
    {Individual}
    \cup {Moore(r, s) : r \in Ranges, s \in BOOLEAN}
    \cup {VonNeuman(r, s) : r \in Ranges, s \in BOOLEAN}

\* self.ruleset.neighbourhood.get_neighbours() for the neighbourhood nb
GetNeighbours(nb) ==
    /\ last' = [op |-> "get_neighbours", nb |-> nb, offsets |-> get_neighbours(nb)]
    /\ UNCHANGED <<world, states, panicked, config>>

\* one neighbourhood is expanded in a run
NextNeighbours ==
    /\ last.op = "main"
    /\ \E nb \in Neighbourhoods : GetNeighbours(nb)

SpecNeighbours == InitIndex /\ [][NextNeighbours]_vars

\* the offsets the description of nb lists, as far as they lie within
\* `bound` of (0, 0): a range at the top of usize reaches past every bound
ListedOffsets(nb, bound) ==
    LET reach == IF nb.range.high THEN bound ELSE Min({nb.range.off, bound})
    IN CASE nb.kind = "Individual" -> {<<0, 0>>}
         [] nb.kind = "Moore" ->
              {o \in (-reach..reach) \X (-reach..reach) :
                  nb.include_self \/ o # <<0, 0>>}
         [] nb.kind = "VonNeuman" ->
              UNION {{<<d, 0>>, <<0, d>>, <<-d, 0>>, <<0, -d>>} : d \in 1..reach}
              \cup (IF nb.include_self THEN {<<0, 0>>} ELSE {})

\* the number of offsets the description of nb gives, for a range below 2^63
ListedCount(nb) ==
    CASE nb.kind = "Individual" -> 1
      [] nb.kind = "Moore" ->
           (2 * nb.range.off + 1) * (2 * nb.range.off + 1)
               - (IF nb.include_self THEN 0 ELSE 1)
      [] nb.kind = "VonNeuman" ->
           4 * nb.range.off + (IF nb.include_self THEN 1 ELSE 0)

NoDuplicates(seq) == \A i, j \in DOMAIN seq : seq[i] = seq[j] => i = j

\* the offsets of the sequence that lie within `bound` of (0, 0)
OffsetsWithin(seq, bound) ==
    {seq[i] : i \in {j \in DOMAIN seq :
                        /\ seq[j][1] \in -bound..bound
                        /\ seq[j][2] \in -bound..bound}}

\* the returned offsets are, without duplicates, those listed for nb
OffsetsAsListed(nb, offsets) ==
    /\ NoDuplicates(offsets)
    /\ OffsetsWithin(offsets, MaxRange) = ListedOffsets(nb, MaxRange)
    /\ ~nb.range.high =>
          /\ {offsets[i] : i \in DOMAIN offsets} = ListedOffsets(nb, nb.range.off)
          /\ Len(offsets) = ListedCount(nb)

TestState ==
    StateDesc(<<"s", "t", "a", "t", "e", "1">>, Rgba(255, 0, 0, 255),
        << Rule(<<"s", "t", "a", "t", "e", "1", " ", ">", " ", "2">>,
                <<"s", "t", "a", "t", "e", "2">>, Some(Cyan)) >>,
        None)

\* the same JSON with the rule key "$state1 > 2"
TestStateDollar ==
    StateDesc(<<"s", "t", "a", "t", "e", "1">>, Rgba(255, 0, 0, 255),
        << Rule(<<"$", "s", "t", "a", "t", "e", "1", " ", ">", " ", "2">>,
                <<"s", "t", "a", "t", "e", "2">>, Some(Cyan)) >>,
        None)

StateTexts ==
    {TestState, TestStateDollar}
    \cup UNION {{d.states[i] : i \in DOMAIN d.states} : d \in Descriptions}

\* serde_json::from_value::<RulesetState> of the state text st, whose rule
\* table is then iterated in the order `order`
DeserializeState(st, order) ==
    /\ last' = [op |-> "deserialize_state", text |-> st,
                result |-> deserialize_state(st, order)]
    /\ UNCHANGED <<world, states, panicked, config>>

\* one state text is deserialised in a run
NextState ==
    /\ last.op = "main"
    /\ \E st \in StateTexts :
       \E order \in IterationOrders({st.rules[i].key : i \in DOMAIN st.rules}) :
          DeserializeState(st, order)

SpecState == InitIndex /\ [][NextState]_vars

\* every rule key of the state text parses as a condition list
KeysParse(st) == \A i \in DOMAIN st.rules : parse_conditions(st.rules[i].key).ok

\* the deserialised state holds the text's colour, its rule keys and for
\* each key its outcome
Preserved(st, result) ==
    /\ result.ok
    /\ result.val.colour = st.colour
    /\ DOMAIN result.val.rules = {st.rules[i].key : i \in DOMAIN st.rules}
    /\ \A i \in DOMAIN st.rules : result.val.rules[st.rules[i].key] = st.rules[i].out

\* what holds of C13: deserialising a state whose rule keys all parse
\* succeeds and the result holds the same colour, the same rule keys and for
\* each key the same outcome; a state with a rule key that does not parse,
\* as the test's "state1 > 2", is not deserialised
ParsedStatePreserved ==
    last.op = "deserialize_state" =>
        IF KeysParse(last.text) THEN Preserved(last.text, last.result)
        ELSE ~last.result.ok

\* the test's state with `$` before the name has been deserialised, paint
\* and all
DollarStateDeserialised ==
    /\ last.op = "deserialize_state"
    /\ last.text = TestStateDollar
    /\ last.result.ok
    /\ last.result.val.rules[TestStateDollar.rules[1].key]
          = Outcome(<<"s", "t", "a", "t", "e", "2">>, Some(Cyan))

\* C13: deserialising a state with a colour and a rules table succeeds and
\* the result holds the same colour, the same rule keys and for each key the
\* same outcome, for the rules table of the test too
C13_StatePreserved ==
    last.op = "deserialize_state" => Preserved(last.text, last.result)

(***************************************************************************)
(* RulesetState::transition on its own: every state of every ruleset that  *)
(* loads, on every census over the ruleset's states                        *)
(***************************************************************************)
LoadedRulesets ==
    {r.val : r \in {q \in UNION {from_str_results[d.id] : d \in Descriptions} : q.ok}}

\* rules.transition(&neighbour_counts) for the state `name` of `ruleset`
Transition(ruleset, name, census) ==
    /\ last' = [op |-> "transition", name |-> name, state |-> ruleset.states[name],
                census |-> census,
                result |-> transition(ruleset.states[name], census)]
    /\ UNCHANGED <<world, states, panicked, config>>

\* one transition is evaluated in a run
NextTransition ==
    /\ last.op = "main"
    /\ \E ruleset \in LoadedRulesets :
       \E name \in DOMAIN ruleset.states, census \in Censuses(DOMAIN ruleset.states) :
          Transition(ruleset, name, census)

SpecTransition == InitParse /\ [][NextTransition]_vars

RECURSIVE NatOf(_)
\* the number that the decimal digits ds write
NatOf(ds) ==
    IF Len(ds) = 0 THEN 0
    ELSE 10 * NatOf(Take(ds, Len(ds) - 1)) + DigitVal(ds[Len(ds)])

\* the count of `name` in the census, 0 for a state without an entry
CountOrZero(census, name) == IF name \in DOMAIN census THEN census[name] ELSE 0

\* the condition holds when its operands are the counts of the census, 0
\* for a state without an entry, or the literal
HoldsWithZero(c, census) ==
    LET l == CountOrZero(census, c.state)
        r == IF c.compare_to.kind = "State"
             THEN CountOrZero(census, c.compare_to.name)
             ELSE NatOf(c.compare_to.v)
    IN CASE c.op = OpEq -> l = r
         [] c.op = OpGt -> l > r
         [] c.op = OpGe -> l >= r
         [] c.op = OpLt -> l < r
         [] c.op = OpLe -> l <= r
         [] c.op = OpNe -> l # r

\* the compiled rules of the state all of whose conditions hold so
FiringWithZero(state, census) ==
    {i \in DOMAIN state.parsed_rules :
        \A j \in DOMAIN state.parsed_rules[i][1] :
            HoldsWithZero(state.parsed_rules[i][1][j], census)}

\* C14: transition evaluates an operand that names a state without an entry
\* in the census as 0 and applies the operator normally; a rule fires iff
\* every one of its conditions holds under this evaluation, and transition
\* returns the outcome of the first compiled rule that fires so, or the
\* state's `otherwise` when none does
C14_UnseenStatesCountZero ==
    last.op = "transition" =>
        /\ \A i \in DOMAIN last.state.parsed_rules :
              rule_fires(last.state.parsed_rules[i][1], last.census)
                  <=> i \in FiringWithZero(last.state, last.census)
        /\ last.result =
              IF FiringWithZero(last.state, last.census) # {}
              THEN Some(last.state.parsed_rules[
                            Min(FiringWithZero(last.state, last.census))][2])
              ELSE last.state.otherwise

\* `$a>$b` has fired on a census with a = 3 and no entry for b
C14_Witness ==
    /\ last.op = "transition"
    /\ last.census = (<<"a">> :> 3)
    /\ \E i \in DOMAIN last.state.parsed_rules :
          /\ last.state.parsed_rules[i][1]
                = << Condition(<<"a">>, OpGt, CompareToState(<<"b">>)) >>
          /\ last.result = Some(last.state.parsed_rules[i][2])

(***************************************************************************)
(* The world under every operation of the driver: generations, the Reset   *)
(* and Randomise buttons and spawns, between reloads of rulesets that load *)
(***************************************************************************)
\* the ruleset texts the editor is tried with
WorldDescriptions == {GameOfLife, Fallback}

\* the sizes the driver's spawn sliders are tried with
WorldSpawnSizes == {1, 2}

\* the draws the spawns are tried with: no box position hit, one, or all
WorldHits(size) ==
    IF size = 1 THEN {{}}
    ELSE {{}, (0..(size - 1)) \X (0..(size - 1))}
         \cup {{p} : p \in (0..(size - 1)) \X (0..(size - 1))}

NextWorld ==
    \/ \E d \in WorldDescriptions : Reload(d)
    \/ NextGeneration
    \/ Randomise
    \/ Reset
    \/ \E x, y \in 0..(MaxCells - 1), size \in WorldSpawnSizes, i \in 1..2 :
       \E hits \in WorldHits(size) : SpawnGroup(x, y, size, i, hits)

SpecWorld == Init /\ [][NextWorld]_vars

\* C16: after any sequence of randomise, spawn_group and next_generation
\* calls, reset() leaves the world that World::new gives for the same width,
\* height and ruleset (every cell in the default state with its colour),
\* and a second reset() changes nothing
C16_ResetEqualsConstruction ==
    last.op = "reset" =>
        /\ Some(world) = world_new(world.width, world.height, world.ruleset)
        /\ reset(world) = world

\* reset() has put a grid of several cells, none of them as construction
\* leaves it, back to the default state
C16_Witness ==
    /\ last.op = "reset"
    /\ Len(world.cells) > 1
    /\ \A i \in DOMAIN world.cells : last.before[i] # world.cells[i]
    /\ \A i \in DOMAIN world.cells :
          world.cells[i] = StateCell(world.ruleset, world.ruleset.default_state)

\* the default state and the `next` of every outcome are keys of `states`
ClosedRuleset(ruleset) ==
    /\ ruleset.default_state \in DOMAIN ruleset.states
    /\ \A n \in DOMAIN ruleset.states :
          /\ \A key \in DOMAIN ruleset.states[n].rules :
                ruleset.states[n].rules[key].next \in DOMAIN ruleset.states
          /\ ruleset.states[n].otherwise.some
                => ruleset.states[n].otherwise.v.next \in DOMAIN ruleset.states

\* C24: under a ruleset whose default state and whose outcomes' `next` are
\* all keys of `states`, after any sequence of World::new, reset, randomise,
\* spawn_group and next_generation every cell's state is a key of the
\* world's ruleset states and there are exactly width * height cells
C24_CellsStayInRuleset ==
    ClosedRuleset(world.ruleset) =>
        /\ \A i \in DOMAIN world.cells :
              world.cells[i].state \in DOMAIN world.ruleset.states
        /\ Len(world.cells) = world.width * world.height

\* a generation has changed a grid of MaxCells cells under the reloaded
\* ruleset `fallback`, and cells of both its states are on the grid
C24_Witness ==
    /\ last.op = "next_generation"
    /\ ~panicked
    /\ ClosedRuleset(world.ruleset)
    /\ DOMAIN world.ruleset.states = {<<"a">>, <<"b">>}
    /\ Len(world.cells) = MaxCells
    /\ world.cells # last.before
    /\ {world.cells[i].state : i \in DOMAIN world.cells} = {<<"a">>, <<"b">>}

(***************************************************************************)
(* The census on its own: get_neighbourhood at every cell of randomised    *)
(* worlds, under rulesets of range 1 and of range 2                        *)
(***************************************************************************)
\* the ruleset texts the editor is tried with
CensusDescriptions == {GameOfLife, Overlap, Wide}

\* self.get_neighbourhood(x, y) for a cell (x, y) of the grid
GetNeighbourhood(x, y) ==
    /\ ~panicked
    /\ x < world.width /\ y < world.height
    /\ \E r \in {get_neighbourhood(world, x, y)} :
          /\ panicked' = r.panic
          /\ last' = [op |-> "get_neighbourhood", x |-> x, y |-> y,
                      before |-> world.cells, result |-> r]
    /\ UNCHANGED <<world, states, config>>

NextCensus ==
    \/ \E d \in CensusDescriptions : Reload(d)
    \/ Randomise
    \/ \E x, y \in 0..(MaxCells - 1) : GetNeighbourhood(x, y)

SpecCensus == Init /\ [][NextCensus]_vars

\* the cell that (x, y) names on the torus
WrappedCell(w, x, y) == w.cells[(y % w.height) * w.width + (x % w.width) + 1]

\* the offsets of w's neighbourhood whose cell, from (x, y), is in state s
OffsetsInState(w, x, y, s) ==
    LET offsets == get_neighbours(w.ruleset.neighbourhood)
    IN {i \in DOMAIN offsets :
           WrappedCell(w, x + offsets[i][1], y + offsets[i][2]).state = s}

RECURSIVE SumOf(_)
\* the sum of the values of a map
SumOf(m) ==
    IF DOMAIN m = {} THEN 0
    ELSE LET k == CHOOSE j \in DOMAIN m : TRUE
         IN m[k] + SumOf([j \in DOMAIN m \ {k} |-> m[j]])

\* C19: get_neighbourhood(x, y) returns a map in which each state that some
\* offset's toroidally wrapped cell is in has the number of such offsets,
\* and no other state has an entry; the counts sum to the number of
\* offsets, each is at least 1, and the grid is as it was
C19_Census ==
    last.op = "get_neighbourhood" =>
        /\ ~last.result.panic
        /\ \A s \in DOMAIN world.ruleset.states :
              IF OffsetsInState(world, last.x, last.y, s) = {}
              THEN s \notin DOMAIN last.result.val
              ELSE /\ s \in DOMAIN last.result.val
                   /\ last.result.val[s]
                         = Cardinality(OffsetsInState(world, last.x, last.y, s))
        /\ DOMAIN last.result.val \subseteq DOMAIN world.ruleset.states
        /\ SumOf(last.result.val) = Len(get_neighbours(world.ruleset.neighbourhood))
        /\ \A s \in DOMAIN last.result.val : last.result.val[s] >= 1
        /\ world.cells = last.before

\* the neighbourhood reaches no further than the grid's width and height
WithinOneWrap(w) ==
    /\ as_isize(w.ruleset.neighbourhood.range) <= w.width
    /\ as_isize(w.ruleset.neighbourhood.range) <= w.height

\* the 0-based index of the cell that (x, y) names on the torus
WrappedIndex(w, x, y) == (y % w.height) * w.width + (x % w.width)

\* the indexes get_neighbourhood(x, y) resolves, one for each offset
ResolvedIndexes(w, x, y) ==
    LET offsets == get_neighbours(w.ruleset.neighbourhood)
    IN [i \in DOMAIN offsets |->
           [index |-> get_index(w, x + offsets[i][1], y + offsets[i][2]),
            wrapped |-> WrappedIndex(w, x + offsets[i][1], y + offsets[i][2])]]

\* C22: for every neighbourhood a loaded ruleset carries and every grid
\* size, each coordinate (x + dx, y + dy) that get_neighbourhood resolves
\* maps to an index in [0, width * height), the index of the toroidally
\* wrapped cell: no cell outside the Vec is accessed, no cell of a wrong
\* row is read
C22_NeighboursStayInGrid ==
    last.op = "get_neighbourhood" =>
        LET resolved == ResolvedIndexes(world, last.x, last.y)
        IN \A i \in DOMAIN resolved :
              /\ index_in_bounds(world.cells, resolved[i].index)
              /\ resolved[i].index = resolved[i].wrapped

\* a census has returned after reading a cell that is not the wrapped cell
\* (reached on a grid of width 1 and height 3 under a range of 2)
WrongRowRead ==
    /\ last.op = "get_neighbourhood"
    /\ ~last.result.panic
    /\ LET resolved == ResolvedIndexes(world, last.x, last.y)
       IN \E i \in DOMAIN resolved : resolved[i].index # resolved[i].wrapped

\* a neighbourhood within one wrap resolves every coordinate in the grid
WithinOneWrapStaysInGrid ==
    (last.op = "get_neighbourhood" /\ WithinOneWrap(world)) =>
        LET resolved == ResolvedIndexes(world, last.x, last.y)
        IN \A i \in DOMAIN resolved :
              /\ index_in_bounds(world.cells, resolved[i].index)
              /\ resolved[i].index = resolved[i].wrapped

(***************************************************************************)
(* Colour strings on their own: `#` or another character, then four pairs  *)
(* of characters, and the same one character shorter and one longer        *)
(***************************************************************************)
\* pairs of hex digits, and pairs u8::from_str_radix does not take as such
ColourPairs ==
    {<<"0", "0">>, <<"f", "f">>, <<"A", "3">>, <<"z", "z">>, <<"+", "f">>, <<"7", "g">>}

NineCharacters ==
    {<<p>> \o a \o b \o c \o d : p \in {"#", "x"}, a, b, c, d \in ColourPairs}

ColourStrings ==
    NineCharacters
    \cup {Take(s, 8) : s \in NineCharacters}
    \cup {Drop(s, 1) : s \in NineCharacters}
    \cup {s \o <<"0">> : s \in NineCharacters}

\* Color::from(RulesetColour::Hex(s))
ColorFrom(s) ==
    /\ last' = [op |-> "color_from", s |-> s, colour |-> color_from(Hex(s))]
    /\ UNCHANGED <<world, states, panicked, config>>

\* one colour string is resolved in a run
NextColour ==
    /\ last.op = "main"
    /\ \E s \in ColourStrings : ColorFrom(s)

SpecColour == InitIndex /\ [][NextColour]_vars

\* `#` followed by exactly 8 hex digits
EightHexDigits(s) ==
    /\ Len(s) = 9
    /\ s[1] = "#"
    /\ \A i \in 2..9 : s[i] \in HexDigits

\* the byte two hex digits at i and i + 1 encode
ByteAt(s, i) == 16 * HexVal(s[i]) + HexVal(s[i + 1])

\* a string of `#` and 8 hex digits has resolved to the bytes they encode
EightHexDigitsResolved ==
    (last.op = "color_from" /\ EightHexDigits(last.s))
        => last.colour = <<ByteAt(last.s, 2), ByteAt(last.s, 4),
                           ByteAt(last.s, 6), ByteAt(last.s, 8)>>

\* a string of another length or without `#` has resolved to (0, 0, 0, 0)
WrongShapeTransparent ==
    (last.op = "color_from" /\ (Len(last.s) # 9 \/ last.s[1] # "#"))
        => last.colour = <<0, 0, 0, 0>>

\* C21: a colour string resolves to the bytes R, G, B, A of its 8 hex digits
\* when it is `#` followed by exactly 8 hex digits, and to fully transparent
\* black (0, 0, 0, 0) when it is any other string
C21_ColourHexResolution ==
    last.op = "color_from"
        => last.colour = IF EightHexDigits(last.s)
                         THEN <<ByteAt(last.s, 2), ByteAt(last.s, 4),
                                ByteAt(last.s, 6), ByteAt(last.s, 8)>>
                         ELSE <<0, 0, 0, 0>>

(***************************************************************************)
(* The driver's spawn selector: the steps of main's loop that read or      *)
(* write config.spawn.spawn_state or `states`, taken one at a time         *)
(***************************************************************************)
\* the ruleset texts the editor is tried with
DriverDescriptions == {GameOfLife, Single, NoStates, BadDefault, BadJson}

\* the spawn sizes the sliders are tried with
DriverSpawnSizes == {1}

\* what a step found when it read the selector
SelectorRead(op) ==
    [op |-> op, spawn_state |-> config.spawn.spawn_state, len |-> Len(states)]

\* world.spawn_group(x, y, size, &states[config.spawn.spawn_state]), for the
\* mouse and for the periodic spawn: the index panics when it is out of bounds
Spawn(x, y, size, hits) ==
    /\ ~panicked
    /\ x < world.width /\ y < world.height
    /\ IF config.spawn.spawn_state < Len(states)
       THEN \E r \in {spawn_group(world, x, y, size,
                                  states[config.spawn.spawn_state + 1], hits)} :
               /\ panicked' = r.panic
               /\ world' = IF r.panic THEN world ELSE r.val
       ELSE /\ panicked' = TRUE
            /\ world' = world
    /\ last' = SelectorRead("spawn")
    /\ UNCHANGED <<states, config>>

\* KeyCode::E: spawn_state = (spawn_state + 1) % states.len(); the remainder
\* panics when states is empty
KeyE ==
    /\ ~panicked
    /\ IF Len(states) = 0
       THEN panicked' = TRUE /\ config' = config
       ELSE /\ panicked' = FALSE
            /\ config' = [config EXCEPT
                            !.spawn.spawn_state = (@ + 1) % Len(states)]
    /\ last' = SelectorRead("key_e")
    /\ UNCHANGED <<world, states>>

\* KeyCode::W: spawn_state = (states.len() + spawn_state - 1) % states.len();
\* with no states the subtraction overflows or the remainder panics
KeyW ==
    /\ ~panicked
    /\ IF Len(states) = 0
       THEN panicked' = TRUE /\ config' = config
       ELSE /\ panicked' = FALSE
            /\ config' = [config EXCEPT
                            !.spawn.spawn_state =
                                (Len(states) + @ - 1) % Len(states)]
    /\ last' = SelectorRead("key_w")
    /\ UNCHANGED <<world, states>>

\* the "Spawn state" combo box over states_ref: the entry i is chosen
ComboBox(i) ==
    /\ ~panicked
    /\ i < Len(states)
    /\ config' = [config EXCEPT !.spawn.spawn_state = i]
    /\ last' = [op |-> "combo_box"]
    /\ UNCHANGED <<world, states, panicked>>

\* the label "Selected: {}" of states[config.spawn.spawn_state], drawn at
\* the end of every frame
SelectedLabel ==
    /\ ~panicked
    /\ panicked' = ~(config.spawn.spawn_state < Len(states))
    /\ last' = SelectorRead("label")
    /\ UNCHANGED <<world, states, config>>

NextDriver ==
    \/ \E d \in DriverDescriptions : Reload(d)
    \/ NextGeneration
    \/ \E x, y \in 0..(MaxCells - 1), size \in DriverSpawnSizes :
       \E hits \in WorldHits(size) : Spawn(x, y, size, hits)
    \/ KeyE
    \/ KeyW
    \/ \E i \in 0..1 : ComboBox(i)
    \/ SelectedLabel

SpecDriver == Init /\ [][NextDriver]_vars

\* C23: after any sequence of driver events (E and W, ruleset changes to a
\* ruleset with fewer or no states, rejected edits, spawns), wherever
\* states[spawn_state] is read or the selector is advanced modulo
\* states.len(), config.spawn.spawn_state < states.len()
C23_SpawnSelectorValid ==
    last.op \in {"spawn", "key_e", "key_w", "label"}
        => last.spawn_state < last.len

\* the label has panicked on the second entry of a list of one state: the
\* selector was moved to index 1 under a ruleset of two states, and a ruleset
\* of one state was loaded after that
SelectorOutlivesStates ==
    /\ last = [op |-> "label", spawn_state |-> 1, len |-> 1]
    /\ panicked

\* the names the driver offers for spawning
OfferedStates == {states[i] : i \in DOMAIN states}

\* C25: after any sequence of ruleset edits, those that deserialise but give
\* no world and those that fail to deserialise included, the driver's list
\* of state names equals the key set of the active world's ruleset
C25_StatesMatchActiveRuleset ==
    OfferedStates = DOMAIN world.ruleset.states

\* the list equals the key set unless the last text to deserialise gave no
\* world: an edit that fails to deserialise leaves the list alone
StatesMatchUnlessWorldNotCreated ==
    [][(OfferedStates = DOMAIN world.ruleset.states
          /\ ~(last'.op = "reload" /\ last'.ruleset.ok /\ ~last'.created))
        => (OfferedStates = DOMAIN world.ruleset.states)']_vars

====
